---- MODULE Spec2Model ----
(***************************************************************************)
(* Nested cross-validation baselines of mshavliuk/labrador:                *)
(*   scripts/evaluations/cancer_diagnosis_logistic_regression_baseline.py  *)
(*   scripts/evaluations/sepsis_mortality_random_forest_baseline.py        *)
(* Both scripts run the same protocol; `script` selects the one modelled.  *)
(* Index arrays hold 0-based indices as in the code; arrays are sequences, *)
(* so element i of array A is A[i + 1].                                    *)
(***************************************************************************)
EXTENDS Integers, Sequences, FiniteSets, TLC

\* ------------------------------------------------------------------ bounds
MaxKInner == 3
MaxKOuter == 2
MaxSubsamples == 2
MaxSeed == 3
MaxRows == 20
\* Row counts of the datasets tried: 3 (empty test holdout, folds larger than
\* the subsample), 10 and MaxRows (one and two test rows).
RowCounts == {3, 10, MaxRows}
Scripts == {"cancer", "sepsis"}

\* Fixed-point levels of one cross-entropy / F1 value of the black-box
\* classifier and metric engine.
CELevels == 3

\* ------------------------------------------------------------------ state
VARIABLES
    script,          \* which of the two scripts runs
    csv,             \* the dataset file: its feature rows and labels
    k_inner, k_outer, random_seed, num_subsamples,   \* sys.argv[3..6]
    rng,             \* the shared generator
    heap,            \* the feature arrays X, X_test, X_dev, X_train, ...
    ys,              \* the label arrays y, y_test, y_dev, y_train, ...
    pc,              \* the statement the script is at
    rep, fi,         \* outer loop index; number of fractions done in this repetition
    test_ix, mask, train_ix,
    cfg,             \* number of configurations evaluated in this selection
    kf, splits, fold, scaler, crossentropies,
    best_ce, best_hps,     \* <<>> is None, <<v>> a value
    scores,          \* lr_ce / lr_f1 (rf_ce) of the last scoring
    results,         \* the list of records
    file,            \* the tables written to the result file, in order
    trace,           \* history: the events of this run with what they drew
    means,           \* history: mean cross-entropy of each configuration of this selection
    splitsUsed,      \* history: the fold partitions used in this selection
    run, prev        \* which run of the script this is; what the run before left

vars == <<script, csv, k_inner, k_outer, random_seed, num_subsamples, rng, heap, ys, pc,
          rep, fi, test_ix, mask, train_ix, cfg, kf, splits, fold, scaler,
          crossentropies, best_ce, best_hps, scores, results, file, trace, means,
          splitsUsed, run, prev>>

args == <<script, csv, k_inner, k_outer, random_seed, num_subsamples>>

\* ----------------------------------------------------------------- helpers
RECURSIVE SumSeq(_)
SumSeq(s) == IF s = <<>> THEN 0 ELSE Head(s) + SumSeq(Tail(s))

Range(s) == {s[i] : i \in DOMAIN s}

IsPrefix(s, t) == Len(s) <= Len(t) /\ SubSeq(t, 1, Len(s)) = s

\* The sequence s without its element at position p.
RemoveAt(s, p) == SubSeq(s, 1, p - 1) \o SubSeq(s, p + 1, Len(s))

\* Ascending sequence of the integers of a finite set.
RECURSIVE SortedSeq(_)
SortedSeq(S) ==
    IF S = {} THEN <<>>
    ELSE LET m == CHOOSE x \in S : \A z \in S : x <= z
         IN <<m>> \o SortedSeq(S \ {m})

\* np.arange(n) as a sequence.
ARange(n) == [i \in 1..n |-> i - 1]

\* int(x) of Python on the non-negative rational a / b (b > 0): truncation.
\* For the row counts and fractions modelled, the float products 0.1 * N and
\* (i / num_subsamples) * n truncate to the same integers.
IntOf(a, b) == a \div b

\* ------------------------------------------------------ random generators
\* The library bit generators are stood for by a linear congruential
\* generator: a state, and a step that is a function of the state alone.
LcgM == 2 ^ 16

LcgNext(s) == (25173 * s + 13849) % LcgM

\* Sampling without replacement: `size` draws from the pool, each removing
\* the drawn element; returns the drawn sequence and the generator state.
RECURSIVE Sample(_, _, _, _)
Sample(s, pool, size, acc) ==
    IF size = 0 THEN [ix |-> acc, s |-> s]
    ELSE LET s1 == LcgNext(s)
             p  == ((s1 \div 256) % Len(pool)) + 1
         IN Sample(s1, RemoveAt(pool, p), size - 1, Append(acc, pool[p]))

\* Variant: the generator is seeded from fresh entropy at each start instead
\* of from random_seed.
DefaultRngUnseeded(seed) == [s |-> (7 * seed + 1 + 4099 * run) % LcgM, draws |-> 0]

\* np.random.default_rng(random_seed): generator position is a function of
\* the seed only; `draws` counts the calls made on the generator.
DefaultRng(seed) == [s |-> (7 * seed + 1) % LcgM, draws |-> 0]

\* rng.choice(n, size=size, replace=False): the indices and the generator
\* after the call.
Choice(g, n, size) ==
    LET r == Sample(g.s, ARange(n), size, <<>>)
    IN [ix |-> r.ix, rng |-> [s |-> r.s, draws |-> g.draws + 1]]

\* ------------------------------------------------------------------ KFold
\* KFold(n_splits, shuffle=True, random_state): the estimator object.
KFold(n_splits, random_state) ==
    [n_splits |-> n_splits, shuffle |-> TRUE, random_state |-> random_state]

\* check_random_state(int): a fresh generator seeded by the integer, so the
\* permutation depends on (random_state, n) alone.
Shuffled(random_state, n) ==
    Sample((13 * random_state + 5) % LcgM, ARange(n), n, <<>>).ix

\* Size of fold j (0-based): n // k, the first n % k folds one larger.
FoldSize(n, k, j) == (n \div k) + (IF j < n % k THEN 1 ELSE 0)

\* Variant: every fold is taken to start at a multiple of n // k, as if all
\* folds had that size.
FoldStartEven(n, k, j) == j * (n \div k)

RECURSIVE FoldStart(_, _, _)
FoldStart(n, k, j) == IF j = 0 THEN 0 ELSE FoldStart(n, k, j - 1) + FoldSize(n, k, j - 1)

\* Variant: the training indices of a fold are all the rows, its validation
\* rows included.
SplitLeaky(est, n) ==
    LET perm == Shuffled(est.random_state, n)
        val(j) == {perm[p] : p \in (FoldStart(n, est.n_splits, j) + 1)..
                                   (FoldStart(n, est.n_splits, j) + FoldSize(n, est.n_splits, j))}
    IN [j \in 1..est.n_splits |->
          [train |-> ARange(n),
           val   |-> SortedSeq(val(j - 1))]]

\* kf.split(X) for n rows: fold j validates on the j-th block of the
\* shuffled indices and trains on the rest, both in ascending index order.
Split(est, n) ==
    LET perm == Shuffled(est.random_state, n)
        val(j) == {perm[p] : p \in (FoldStart(n, est.n_splits, j) + 1)..
                                   (FoldStart(n, est.n_splits, j) + FoldSize(n, est.n_splits, j))}
    IN [j \in 1..est.n_splits |->
          [train |-> SortedSeq((0..(n - 1)) \ val(j - 1)),
           val   |-> SortedSeq(val(j - 1))]]

\* ------------------------------------------------------- search spaces
\* logreg_config; the values of C in units of 1e-4.
LogregConfig ==
    << [key |-> "C",           values |-> <<1, 10, 100, 1000>>],
       [key |-> "multi_class", values |-> <<"multinomial">>],
       [key |-> "penalty",     values |-> <<"l2">>],
       [key |-> "solver",      values |-> <<"lbfgs">>],
       [key |-> "max_iter",    values |-> <<200>>] >>

\* randomforest_config.
RandomforestConfig ==
    << [key |-> "n_estimators", values |-> <<30, 100, 200>>],
       [key |-> "max_depth",    values |-> <<3, 5, 10>>],
       [key |-> "max_features", values |-> <<"None", "sqrt">>] >>

\* gen_combinations: the Cartesian product of the candidate lists, in key
\* order (the first key varies slowest); a configuration is the sequence of
\* the values chosen, one per key.
RECURSIVE GenCombinations(_)
GenCombinations(space) ==
    IF space = <<>> THEN << <<>> >>
    ELSE LET rest == GenCombinations(Tail(space))
             vals == Head(space).values
             n    == Len(rest)
         IN [i \in 1..(Len(vals) * n) |->
               <<vals[((i - 1) \div n) + 1]>> \o rest[((i - 1) % n) + 1]]

SearchSpace(scr) == IF scr = "cancer" THEN LogregConfig ELSE RandomforestConfig

\* Metrics recorded per (repetition, fraction).
Metrics(scr) == IF scr = "cancer" THEN <<"cross_entropy", "f1">> ELSE <<"cross_entropy">>

\* Columns the scaler is fit on and applied to: continuous_col_ixs in the
\* cancer script, every feature column in the sepsis script.
ScaledCols(scr) == IF scr = "cancer" THEN {"cont"} ELSE {"cont", "cat"}

\* ------------------------------------------------------------ the dataset
\* df[feature_cols].to_numpy(): row i carries its identity (id, which no
\* operation of the program reads), a continuous and a categorical feature.
DatasetX(n) == [i \in 1..n |-> [id |-> i - 1, cont |-> ((i - 1) * 7 + 3) % 11, cat |-> (i - 1) % 2]]

\* df[label_column].to_numpy().
DatasetY(n) == [i \in 1..n |-> ((i - 1) \div 2) % 2]

\* A[ix] with an integer index array (or the positions of a boolean mask):
\* the selected rows, as a new array.
Take(A, ix) == [p \in 1..Len(ix) |-> A[ix[p] + 1]]

Ids(rows) == {rows[p].id : p \in DOMAIN rows}

\* ---------------------------------------------------------------- arrays
\* The feature arrays live in buffers; a variable of the program is bound to
\* a buffer, and two variables bound to one buffer see each other's stores.
XVars == {"X", "X_test", "X_dev", "X_train", "X_ktrain", "X_kval",
          "X_train_scaled", "X_test_scaled"}

\* The array a variable refers to.
Read(h, v) == h.mem[h.bind[v]]

\* v = <expression building a new array>: v is bound to a buffer of its own.
Assign(h, v, rows) == [mem |-> [h.mem EXCEPT ![v] = rows], bind |-> [h.bind EXCEPT ![v] = v]]

\* Variant: v = src without .copy(): v is bound to the buffer of src.
AliasTo(h, v, src) == [h EXCEPT !.bind[v] = h.bind[src]]

\* v = src.copy(): a new buffer with the contents of src.
CopyTo(h, v, src) == Assign(h, v, Read(h, src))

\* v[:, cols] = rows: a store into the buffer v is bound to.
Store(h, v, rows) == [h EXCEPT !.mem[h.bind[v]] = rows]

\* ---------------------------------------------------------- StandardScaler
Mean(xs) == SumSeq(xs) \div Len(xs)

\* StandardScaler().fit(rows[:, cols]): per-column statistics of the rows
\* given, and (ids) the rows they were computed from.
Fit(rows, cols) ==
    [ids  |-> Ids(rows),
     cols |-> cols,
     mean |-> [c \in cols |-> Mean([p \in DOMAIN rows |-> rows[p][c]])]]

\* scaler.transform(rows[:, cols]) written over the columns: centred on the
\* fitted mean (the division by the fitted scale is left out of the
\* fixed-point values), the other columns as they were.
Transform(sc, rows) ==
    [p \in DOMAIN rows |->
        [f \in DOMAIN rows[p] |-> IF f \in sc.cols THEN rows[p][f] - sc.mean[f] ELSE rows[p][f]]]

\* ------------------------------------------- classifier and metric engine
\* The classifier and the metrics are black boxes: deterministic functions
\* of the configuration, random_state and the arrays handed to them.
ConfigCode(configs, hps) == CHOOSE i \in DOMAIN configs : configs[i] = hps

Digest(code, seed, Xfit, yfit, Xs, yv) ==
    LET a == code * code * 5 + seed * 11 + Len(Xfit) * 3 + SumSeq(yfit)
        b == SumSeq([p \in DOMAIN Xs |-> Xs[p].cont * (p + yv[p]) + Xs[p].cat])
    IN ((a * 37 + b * 101 + (a \div 3)) % 1009)

\* scce / bce of predict_proba on the scored rows.
CrossEntropy(code, seed, Xfit, yfit, Xs, yv) == Digest(code, seed, Xfit, yfit, Xs, yv) % CELevels

\* f1_score of predict_proba on the scored rows.
F1(code, seed, Xfit, yfit, Xs, yv) == (Digest(code, seed, Xfit, yfit, Xs, yv) \div 7) % CELevels

\* np.mean of the fold cross-entropies, as the rational num / den.
NpMean(xs) == [num |-> SumSeq(xs), den |-> Len(xs)]

Less(m1, m2) == m1.num * m2.den < m2.num * m1.den


\* ------------------------------------------------------- derived state
YVars == {"y", "y_test", "y_dev", "y_train", "y_ktrain", "y_kval"}

None == <<>>

NoScaler == [ids |-> {}, cols |-> {}, mean |-> <<>>]

NoKFold == [n_splits |-> 0, shuffle |-> FALSE, random_state |-> 0]

X == Read(heap, "X")
X_test == Read(heap, "X_test")
X_dev == Read(heap, "X_dev")
X_train == Read(heap, "X_train")
X_ktrain == Read(heap, "X_ktrain")
X_kval == Read(heap, "X_kval")

\* gen_combinations(logreg_config) / gen_combinations(randomforest_config)
Configs == GenCombinations(SearchSpace(script))

\* np.arange(1, num_subsamples + 1) / num_subsamples, each fraction as the
\* rational num / den; empty when num_subsamples <= 0.
Fractions(n) == [i \in 1..n |-> [num |-> i, den |-> n]]

\* Variant: the mask is left all True.
DevMaskAllTrue(n, tix) == [i \in 0..(n - 1) |-> TRUE]

\* mask = np.ones(N, dtype=bool); mask[test_ix] = False
DevMask(n, tix) == [i \in 0..(n - 1) |-> i \notin Range(tix)]

\* The positions a boolean mask selects, ascending.
Where(m) == SortedSeq({i \in DOMAIN m : m[i]})

\* Variant: <= in place of <, so that a later tie replaces the incumbent.
ImprovesOrTies(m, best) == best = None \/ ~Less(best[1], m)

\* best_ce is None or np.mean(crossentropies) < best_ce
Improves(m, best) == best = None \/ Less(m, best[1])

\* Variant: the new records are put in front of the list.
ExtendAtFront(rs, recs) == recs \o rs

\* results.extend(records) / results.append(record)
Extend(rs, recs) == rs \o recs

\* One record per metric of the script, in the order written.
Records(scr, r, fr, sc) ==
    [m \in 1..Len(Metrics(scr)) |->
        [rep |-> r, fraction |-> fr, metric |-> Metrics(scr)[m], value |-> sc[m],
         method |-> IF scr = "cancer" THEN "logistic_regression" ELSE "random_forest"]]

\* Variant: range(k_outer - 1), one repetition short.
OuterLoopFinishedEarly == rep >= k_outer - 1

\* for rep in range(k_outer): the loop is over when rep reaches k_outer.
OuterLoopFinished == rep >= k_outer

\* Variant: the exception is caught and the table so far is saved.
UnhandledThenSave == "save"

\* An exception no handler catches ends the script: nothing after the
\* raising statement runs.
Unhandled == "aborted"

Event(ev, ix, folds, hps) ==
    [ev |-> ev, rep |-> rep, fi |-> fi, ix |-> ix, folds |-> folds, hps |-> hps]

\* The generator before it is seeded.
NoRng == [s |-> 0, draws |-> 0]

\* The script is launched: its arguments and the dataset file are given,
\* nothing has run yet.
Init ==
    /\ script \in Scripts
    /\ \E n \in RowCounts : csv = [X |-> DatasetX(n), y |-> DatasetY(n)]
    /\ k_inner \in 0..MaxKInner
    /\ k_outer \in (-1)..MaxKOuter
    /\ random_seed \in 0..MaxSeed
    /\ num_subsamples \in (-1)..MaxSubsamples
    /\ run = 1
    /\ prev = [trace |-> <<>>, file |-> <<>>]
    /\ pc = "start"
    /\ rng = NoRng
    /\ heap = [mem |-> [v \in XVars |-> <<>>], bind |-> [v \in XVars |-> v]]
    /\ ys = [v \in YVars |-> <<>>]
    /\ rep = 0 /\ fi = 0
    /\ test_ix = <<>> /\ mask = <<>> /\ train_ix = <<>>
    /\ cfg = 0 /\ kf = NoKFold /\ splits = <<>> /\ fold = 0
    /\ scaler = NoScaler /\ crossentropies = <<>>
    /\ best_ce = None /\ best_hps = None /\ scores = <<>>
    /\ results = <<>> /\ file = <<>>
    /\ trace = <<>> /\ means = <<>> /\ splitsUsed = {}

\* ---------------------------------------------------------------- actions
\* Lines 18-68 (16-45): arguments parsed, generator seeded, dataset loaded,
\* results empty.
Startup ==
    /\ pc = "start"
    /\ rng' = DefaultRng(random_seed)
    /\ heap' = Assign(heap, "X", csv.X)
    /\ ys' = [ys EXCEPT !["y"] = csv.y]
    /\ results' = <<>>
    /\ pc' = "rep"
    /\ UNCHANGED <<args, rep, fi, test_ix, mask, train_ix, cfg, kf, splits, fold, scaler,
                   crossentropies, best_ce, best_hps, scores, file, trace, means,
                   splitsUsed, run, prev>>

\* Lines 69-77 (46-54): a repetition starts; test holdout and development pool.
DrawTestHoldout ==
    /\ pc = "rep" /\ ~OuterLoopFinished
    /\ LET n == Len(X)
           c == Choice(rng, n, IntOf(1 * n, 10))
           m == DevMask(n, c.ix)
           h1 == Assign(heap, "X_test", Take(X, c.ix))
       IN /\ rng' = c.rng
          /\ test_ix' = c.ix
          /\ mask' = m
          /\ heap' = Assign(h1, "X_dev", Take(X, Where(m)))
          /\ ys' = [ys EXCEPT !["y_test"] = Take(ys["y"], c.ix),
                              !["y_dev"] = Take(ys["y"], Where(m))]
          /\ trace' = Append(trace, [Event("test_draw", c.ix, {}, None) EXCEPT !.fi = 0])
    /\ fi' = 0
    /\ pc' = "fraction"
    /\ UNCHANGED <<args, rep, train_ix, cfg, kf, splits, fold, scaler, crossentropies,
                   best_ce, best_hps, scores, results, file, means, splitsUsed, run, prev>>

\* Lines 79-87 (56-64): the next fraction; training subsample, selection reset.
DrawTrainSubsample ==
    /\ pc = "fraction" /\ fi < Len(Fractions(num_subsamples))
    /\ LET fr == Fractions(num_subsamples)[fi + 1]
           n == Len(X_dev)
           c == Choice(rng, n, IntOf(fr.num * n, fr.den))
       IN /\ rng' = c.rng
          /\ train_ix' = c.ix
          /\ heap' = Assign(heap, "X_train", Take(X_dev, c.ix))
          /\ ys' = [ys EXCEPT !["y_train"] = Take(ys["y_dev"], c.ix)]
          /\ trace' = Append(trace, Event("train_draw", c.ix, {}, None))
    /\ best_ce' = None /\ best_hps' = None
    /\ cfg' = 0 /\ means' = <<>> /\ splitsUsed' = {}
    /\ pc' = "config"
    /\ UNCHANGED <<args, rep, fi, test_ix, mask, kf, splits, fold, scaler, crossentropies,
                   scores, results, file, run, prev>>

\* Lines 88-91 (65-68): the next configuration; its KFold and the fold generator.
ConfigBegin ==
    /\ pc = "config" /\ cfg < Len(Configs)
    /\ k_inner >= 2 /\ k_inner <= Len(X_train)
    /\ crossentropies' = <<>>
    /\ kf' = KFold(k_inner, random_seed)
    /\ splits' = Split(kf', Len(X_train))
    /\ splitsUsed' = splitsUsed \cup {splits'}
    /\ fold' = 0
    /\ pc' = "fold"
    /\ UNCHANGED <<args, rng, heap, ys, rep, fi, test_ix, mask, train_ix, cfg, scaler,
                   best_ce, best_hps, scores, results, file, trace, means, run, prev>>

\* Line 90 (67): KFold raises ValueError for n_splits <= 1; line 91 (68):
\* split raises ValueError for n_splits > n_samples. The script ends there.
KFoldRaises ==
    /\ pc = "config" /\ cfg < Len(Configs)
    /\ (k_inner <= 1 \/ k_inner > Len(X_train))
    /\ pc' = Unhandled
    /\ UNCHANGED <<args, rng, heap, ys, rep, fi, test_ix, mask, train_ix, cfg, kf, splits,
                   fold, scaler, crossentropies, best_ce, best_hps, scores, results, file,
                   trace, means, splitsUsed, run, prev>>

\* Lines 91-112 (68-83): one fold of one configuration.
FoldStep ==
    /\ pc = "fold" /\ fold < Len(splits)
    /\ LET ktrain_index == splits[fold + 1].train
           kval_index == splits[fold + 1].val
           h1 == Assign(heap, "X_ktrain", Take(X_train, ktrain_index))
           h2 == Assign(h1, "X_kval", Take(X_train, kval_index))
           y1 == [ys EXCEPT !["y_ktrain"] = Take(ys["y_train"], ktrain_index),
                            !["y_kval"] = Take(ys["y_train"], kval_index)]
           sc == Fit(Read(h2, "X_ktrain"), ScaledCols(script))
           \* cancer: X_ktrain[:, cols] = scaler.transform(...), a store;
           \* sepsis: X_ktrain = scaler.transform(X_ktrain), a new array.
           h3 == IF script = "cancer"
                 THEN Store(h2, "X_ktrain", Transform(sc, Read(h2, "X_ktrain")))
                 ELSE Assign(h2, "X_ktrain", Transform(sc, Read(h2, "X_ktrain")))
           h4 == IF script = "cancer"
                 THEN Store(h3, "X_kval", Transform(sc, Read(h3, "X_kval")))
                 ELSE Assign(h3, "X_kval", Transform(sc, Read(h3, "X_kval")))
           ce == CrossEntropy(cfg + 1, random_seed, Read(h4, "X_ktrain"), y1["y_ktrain"],
                              Read(h4, "X_kval"), y1["y_kval"])
       IN /\ heap' = h4
          /\ ys' = y1
          /\ scaler' = sc
          /\ crossentropies' = Append(crossentropies, ce)
    /\ fold' = fold + 1
    /\ UNCHANGED <<args, rng, pc, rep, fi, test_ix, mask, train_ix, cfg, kf, splits,
                   best_ce, best_hps, scores, results, file, trace, means, splitsUsed,
                   run, prev>>

\* Lines 114-116 (85-87): the folds are done; keep the configuration if better.
FoldLoopExit ==
    /\ pc = "fold" /\ fold >= Len(splits)
    /\ LET m == NpMean(crossentropies)
       IN /\ IF Improves(m, best_ce)
             THEN best_ce' = <<m>> /\ best_hps' = <<Configs[cfg + 1]>>
             ELSE UNCHANGED <<best_ce, best_hps>>
          /\ means' = Append(means, m)
    /\ cfg' = cfg + 1
    /\ pc' = "config"
    /\ UNCHANGED <<args, rng, heap, ys, rep, fi, test_ix, mask, train_ix, kf, splits, fold,
                   scaler, crossentropies, scores, results, file, trace, splitsUsed,
                   run, prev>>

\* Line 88 (65): the configurations are exhausted; the selection is over.
ConfigLoopExit ==
    /\ pc = "config" /\ cfg >= Len(Configs)
    /\ trace' = Append(trace, Event("select", <<>>, splitsUsed, best_hps))
    /\ pc' = "refit"
    /\ UNCHANGED <<args, rng, heap, ys, rep, fi, test_ix, mask, train_ix, cfg, kf, splits,
                   fold, scaler, crossentropies, best_ce, best_hps, scores, results, file,
                   means, splitsUsed, run, prev>>

\* Lines 118-124 (89-93): refit the winner on the scaled training subsample.
Refit ==
    /\ pc = "refit" /\ best_hps # None
    /\ LET sc == Fit(X_train, ScaledCols(script))
           h1 == CopyTo(heap, "X_train_scaled", "X_train")
           h2 == IF script = "cancer"
                 THEN Store(h1, "X_train_scaled", Transform(sc, Read(h1, "X_train")))
                 ELSE Assign(h1, "X_train_scaled", Transform(sc, Read(h1, "X_train")))
       IN /\ scaler' = sc
          /\ heap' = h2
    /\ trace' = Append(trace, Event("refit", <<>>, {}, best_hps))
    /\ pc' = "score"
    /\ UNCHANGED <<args, rng, ys, rep, fi, test_ix, mask, train_ix, cfg, kf, splits, fold,
                   crossentropies, best_ce, best_hps, scores, results, file, means,
                   splitsUsed, run, prev>>

\* Lines 125-131 (94-97): scale the test holdout with the refit scaler; score.
Score ==
    /\ pc = "score"
    /\ LET h1 == CopyTo(heap, "X_test_scaled", "X_test")
           \* cancer transforms X_test_scaled in place, sepsis transforms X_test.
           h2 == IF script = "cancer"
                 THEN Store(h1, "X_test_scaled", Transform(scaler, Read(h1, "X_test_scaled")))
                 ELSE Assign(h1, "X_test_scaled", Transform(scaler, Read(h1, "X_test")))
           code == ConfigCode(Configs, best_hps[1])
           ce == CrossEntropy(code, random_seed, Read(h2, "X_train_scaled"), ys["y_train"],
                              Read(h2, "X_test_scaled"), ys["y_test"])
           f1 == F1(code, random_seed, Read(h2, "X_train_scaled"), ys["y_train"],
                    Read(h2, "X_test_scaled"), ys["y_test"])
       IN /\ heap' = h2
          /\ scores' = IF script = "cancer" THEN <<ce, f1>> ELSE <<ce>>
    /\ trace' = Append(trace, Event("score", <<>>, {}, best_hps))
    /\ pc' = "append"
    /\ UNCHANGED <<args, rng, ys, rep, fi, test_ix, mask, train_ix, cfg, kf, splits, fold,
                   scaler, crossentropies, best_ce, best_hps, results, file, means,
                   splitsUsed, run, prev>>

\* Lines 133-150 (99-107): the records of this (repetition, fraction).
AppendRecords ==
    /\ pc = "append"
    /\ results' = Extend(results, Records(script, rep, Fractions(num_subsamples)[fi + 1], scores))
    /\ trace' = Append(trace, Event("append", <<>>, {}, None))
    /\ fi' = fi + 1
    /\ pc' = "fraction"
    /\ UNCHANGED <<args, rng, heap, ys, rep, test_ix, mask, train_ix, cfg, kf, splits, fold,
                   scaler, crossentropies, best_ce, best_hps, scores, file, means,
                   splitsUsed, run, prev>>

\* Line 79 (56): the fractions are exhausted; on to the next repetition.
FractionLoopExit ==
    /\ pc = "fraction" /\ fi >= Len(Fractions(num_subsamples))
    /\ rep' = rep + 1
    /\ pc' = "rep"
    /\ UNCHANGED <<args, rng, heap, ys, fi, test_ix, mask, train_ix, cfg, kf, splits, fold,
                   scaler, crossentropies, best_ce, best_hps, scores, results, file, trace,
                   means, splitsUsed, run, prev>>

\* Line 69 (46): the repetitions are exhausted.
OuterLoopExit ==
    /\ pc = "rep" /\ OuterLoopFinished
    /\ pc' = "save"
    /\ UNCHANGED <<args, rng, heap, ys, rep, fi, test_ix, mask, train_ix, cfg, kf, splits,
                   fold, scaler, crossentropies, best_ce, best_hps, scores, results, file,
                   trace, means, splitsUsed, run, prev>>

\* Lines 152-159 (109-116): the table is built from results and written.
SaveResults ==
    /\ pc = "save"
    /\ file' = Append(file, results)
    /\ pc' = "done"
    /\ UNCHANGED <<args, rng, heap, ys, rep, fi, test_ix, mask, train_ix, cfg, kf, splits,
                   fold, scaler, crossentropies, best_ce, best_hps, scores, results, trace,
                   means, splitsUsed, run, prev>>

\* The classifier or a metric raises while fitting, predicting or scoring
\* (lines 103-111, 118-131): the exception is not caught, the script ends.
UpstreamRaises ==
    /\ pc \in {"fold", "refit", "score"}
    /\ (pc = "fold" => fold < Len(splits))
    /\ pc' = Unhandled
    /\ UNCHANGED <<args, rng, heap, ys, rep, fi, test_ix, mask, train_ix, cfg, kf, splits,
                   fold, scaler, crossentropies, best_ce, best_hps, scores, results, file,
                   trace, means, splitsUsed, run, prev>>

Next ==
    \/ Startup
    \/ DrawTestHoldout
    \/ DrawTrainSubsample
    \/ ConfigBegin
    \/ KFoldRaises
    \/ FoldStep
    \/ FoldLoopExit
    \/ ConfigLoopExit
    \/ Refit
    \/ Score
    \/ AppendRecords
    \/ FractionLoopExit
    \/ OuterLoopExit
    \/ SaveResults
    \/ UpstreamRaises

Spec == Init /\ [][Next]_vars

\* The script is launched again with the same arguments on the same dataset
\* once a run has completed; what the finished run drew and wrote is kept.
Rerun ==
    /\ pc = "done" /\ run = 1
    /\ prev' = [trace |-> trace, file |-> file]
    /\ run' = 2
    /\ pc' = "start"
    /\ rng' = NoRng
    /\ heap' = [mem |-> [v \in XVars |-> <<>>], bind |-> [v \in XVars |-> v]]
    /\ ys' = [v \in YVars |-> <<>>]
    /\ rep' = 0 /\ fi' = 0
    /\ test_ix' = <<>> /\ mask' = <<>> /\ train_ix' = <<>>
    /\ cfg' = 0 /\ kf' = NoKFold /\ splits' = <<>> /\ fold' = 0
    /\ scaler' = NoScaler /\ crossentropies' = <<>>
    /\ best_ce' = None /\ best_hps' = None /\ scores' = <<>>
    /\ results' = <<>> /\ file' = <<>>
    /\ trace' = <<>> /\ means' = <<>> /\ splitsUsed' = {}
    /\ UNCHANGED args

SpecTwoRuns == Init /\ [][Next \/ Rerun]_vars


\* ----------------------------------------------------------------- claims
Started == trace # <<>>

InSelection == pc \in {"config", "fold"}

AfterSelection == pc \in {"refit", "score", "append"}

NonNeg(x) == IF x < 0 THEN 0 ELSE x

\* C1: in every repetition the test holdout (drawn without replacement, of
\* size floor(0.1 * N)) and the development pool (the rows whose mask is
\* True) are disjoint and together are all the row indices 0..N-1.
C1_HoldoutAndPoolPartitionRows ==
    Started =>
        LET n == Len(X)
            T == Range(test_ix)
            D == {i \in DOMAIN mask : mask[i]}
        IN /\ Len(test_ix) = n \div 10
           /\ Cardinality(T) = Len(test_ix)
           /\ T \cap D = {}
           /\ T \cup D = 0..(n - 1)
           /\ Ids(X_test) = T
           /\ Ids(X_dev) = D

C1_Witness ==
    /\ rep = 1 /\ pc = "fraction" /\ fi = 0
    /\ Len(test_ix) = 2
    /\ test_ix # trace[1].ix

\* The first index of a smallest mean: no mean is lower, and every earlier
\* mean is higher.
ArgMinFirst(ms) ==
    CHOOSE i \in DOMAIN ms :
        /\ \A j \in DOMAIN ms : ~Less(ms[j], ms[i])
        /\ \A j \in 1..(i - 1) : Less(ms[i], ms[j])

\* C2: the selection ends with best_hps the configuration of lowest mean
\* cross-entropy over the folds, the first enumerated among those that tie;
\* the same holds of the configurations evaluated so far at every point of
\* the loop.
C2_BestIsFirstMinimum ==
    /\ (means # <<>> /\ (InSelection \/ AfterSelection)) =>
          /\ best_hps = <<Configs[ArgMinFirst(means)]>>
          /\ best_ce = <<means[ArgMinFirst(means)]>>
    /\ AfterSelection => Len(means) = Len(Configs)

C2_Witness ==
    /\ pc = "refit"
    /\ ArgMinFirst(means) > 1
    /\ \E j \in DOMAIN means :
          /\ j > ArgMinFirst(means)
          /\ ~Less(means[ArgMinFirst(means)], means[j])

\* C3: a scaler is fit only on rows disjoint from the rows it scores: the
\* fold scaler on the fold's training rows, which share no row with the
\* fold's validation rows; the refit scaler on the training subsample, which
\* lies in the development pool and shares no row with the test holdout.
C3_ScalerFitDisjointFromScored ==
    /\ (pc = "fold" /\ fold > 0) =>
          /\ scaler.ids = Ids(X_ktrain)
          /\ scaler.ids \cap Ids(X_kval) = {}
          /\ scaler.ids \cup Ids(X_kval) = Ids(X_train)
          /\ Len(X_ktrain) + Len(X_kval) = Cardinality(Ids(X_train))
    /\ (pc \in {"score", "append"}) =>
          /\ scaler.ids = Ids(X_train)
          /\ scaler.ids \subseteq Ids(X_dev)
          /\ scaler.ids \cap Ids(X_test) = {}

C3_Witness ==
    /\ pc = "append"
    /\ Len(X_test) = 2
    /\ scaler.ids # {}
    /\ Len(X_kval) > 0
    /\ Ids(X_ktrain) \cap Ids(X_kval) = {}

\* The (repetition, fraction, metric) keys a complete run records, in order:
\* repetition-major, then fraction i / num for i = 1..num, then metric.
ExpectedKeys(scr, ko, ns) ==
    LET M == Len(Metrics(scr))
    IN [p \in 1..(ko * ns * M) |->
          [rep      |-> (p - 1) \div (ns * M),
           fraction |-> [num |-> (((p - 1) \div M) % ns) + 1, den |-> ns],
           metric   |-> Metrics(scr)[((p - 1) % M) + 1]]]

Keys(rs) == [p \in DOMAIN rs |->
               [rep |-> rs[p].rep, fraction |-> rs[p].fraction, metric |-> rs[p].metric]]

C4_CompleteTable ==
    (pc = "done" /\ k_outer >= 1 /\ num_subsamples >= 1) =>
        /\ Len(results) = k_outer * num_subsamples * Len(Metrics(script))
        /\ Keys(results) = ExpectedKeys(script, k_outer, num_subsamples)
        /\ (num_subsamples = 1 =>
               \A p \in DOMAIN results : results[p].fraction.num = results[p].fraction.den)

\* C4: a completed run with k_outer >= 1 and num_subsamples >= 1 holds
\* exactly k_outer * num_subsamples * M records, repetition-major, then by
\* fraction ascending, then by metric; and every step leaves the records
\* already present in place, adding only at the end.
C4_ResultsOrderedAppendOnly ==
    /\ []C4_CompleteTable
    /\ [][IsPrefix(results, results')]_vars

C4_Witness ==
    /\ pc = "done" /\ script = "cancer"
    /\ k_outer = 2 /\ num_subsamples = 2
    /\ Len(results) = 8

C6_InvalidCountsWriteNoFile ==
    (k_outer <= 0 \/ num_subsamples <= 0 \/ k_inner <= 1) =>
        /\ file = <<>>
        /\ pc # "done"

\* C7: the result file is written at most once, only after every repetition
\* and every fraction of it has been scored; once a step has failed no file
\* is written, whatever repetitions were completed before.
C7_WrittenOnceAfterAllOrNever ==
    /\ Len(file) <= 1
    /\ file # <<>> =>
          /\ pc = "done"
          /\ rep >= k_outer
          /\ file[1] = results
          /\ Len(results) = NonNeg(k_outer) * NonNeg(num_subsamples) * Len(Metrics(script))
    /\ pc = "aborted" => file = <<>>
    /\ pc = "done" => Len(file) = 1

C7_Witness ==
    /\ pc = "aborted"
    /\ rep >= 1 /\ results # <<>>
    /\ file = <<>>

\* The events of a complete run, in order.
ExpectedEvents(ko, ns) ==
    LET L == 1 + 5 * ns
        kinds == <<"train_draw", "select", "refit", "score", "append">>
    IN [p \in 1..(ko * L) |->
          LET r == (p - 1) \div L
              q == (p - 1) % L
          IN IF q = 0
             THEN [ev |-> "test_draw", rep |-> r, fi |-> 0]
             ELSE [ev |-> kinds[((q - 1) % 5) + 1], rep |-> r, fi |-> (q - 1) \div 5]]

Labels(tr) == [p \in DOMAIN tr |-> [ev |-> tr[p].ev, rep |-> tr[p].rep, fi |-> tr[p].fi]]

NumDraws(tr) == Cardinality({p \in DOMAIN tr : tr[p].ev \in {"test_draw", "train_draw"}})

\* C8: per repetition one test-holdout draw, then per fraction one
\* training-subsample draw, one selection, one refit, one scoring and the
\* append, in that order; the shared generator is drawn from by the two
\* draws only, k_outer * (1 + num_subsamples) times in a complete run.
C8_EventOrderAndDraws ==
    /\ IsPrefix(Labels(trace), ExpectedEvents(NonNeg(k_outer), NonNeg(num_subsamples)))
    /\ rng.draws = NumDraws(trace)
    /\ pc = "done" =>
          /\ Labels(trace) = ExpectedEvents(NonNeg(k_outer), NonNeg(num_subsamples))
          /\ (k_outer >= 0 /\ num_subsamples >= 0) =>
                 rng.draws = k_outer * (1 + num_subsamples)

C8_Witness ==
    /\ pc = "done"
    /\ k_outer = 2 /\ num_subsamples = 2
    /\ rng.draws = 6
    /\ Len(trace) = 22

\* C9: the k_inner validation folds of a configuration are mutually
\* disjoint, cover 0..R-1, differ in size by at most one, each validates
\* once with all the other rows as training, and every configuration of one
\* selection uses the same partition.
C9_FoldsPartitionRows ==
    pc = "fold" =>
        LET R == Len(X_train)
            V(j) == Range(splits[j].val)
            Tr(j) == Range(splits[j].train)
        IN /\ k_inner >= 2
           /\ Len(splits) = k_inner
           /\ \A i, j \in DOMAIN splits : i # j => V(i) \cap V(j) = {}
           /\ UNION {V(j) : j \in DOMAIN splits} = 0..(R - 1)
           /\ \A i, j \in DOMAIN splits : Len(splits[i].val) - Len(splits[j].val) \in {-1, 0, 1}
           /\ \A j \in DOMAIN splits :
                 /\ Cardinality(V(j)) = Len(splits[j].val)
                 /\ Tr(j) = (0..(R - 1)) \ V(j)
                 /\ Len(splits[j].train) = R - Len(splits[j].val)
           /\ Len(crossentropies) = fold
           /\ fold <= k_inner
           /\ splitsUsed = {splits}

C9_Witness ==
    /\ pc = "fold" /\ fold = k_inner
    /\ cfg >= 1
    /\ k_inner = 3
    /\ Len(X_train) % k_inner # 0

\* C10: the selection, the refit and the scoring leave the dataset, the
\* development pool, the test holdout and the training subsample as they
\* were drawn: every fold and the refit read the unscaled subsample.
C10_SourceArraysUntouched ==
    /\ pc # "start" =>
          /\ X = csv.X
          /\ ys["y"] = csv.y
    /\ Started =>
          /\ X_test = Take(X, test_ix)
          /\ X_dev = Take(X, Where(mask))
          /\ ys["y_test"] = Take(ys["y"], test_ix)
          /\ ys["y_dev"] = Take(ys["y"], Where(mask))
    /\ (InSelection \/ AfterSelection) =>
          /\ X_train = Take(X_dev, train_ix)
          /\ ys["y_train"] = Take(ys["y_dev"], train_ix)

C10_Witness ==
    /\ script = "cancer"
    /\ pc = "append" /\ fi = 1
    /\ Len(X_test) = 2
    /\ Read(heap, "X_test_scaled") # X_test
    /\ Read(heap, "X_train_scaled") # X_train
    /\ X_kval # Take(X_train, splits[Len(splits)].val)


====
